---- MODULE Spec2Model ----
(***************************************************************************)
(* OAuth2 token lifecycle and request replay of MauticServer               *)
(* (src/src/index.ts): the stored token, ensureValidToken, getAccessToken, *)
(* refreshToken and the two axios interceptors, for concurrent API calls   *)
(* that suspend at their network calls.                                    *)
(***************************************************************************)
EXTENDS Integers, FiniteSets, Sequences, TLC

VARIABLES token, now, call, exch, env, server, log, caught

vars == <<token, now, call, exch, env, server, log, caught>>

(***************************************************************************)
(* Bounds of the model.                                                    *)
(***************************************************************************)
\* how many times the clock advances
MaxTicks == 1
\* the transmission counter of one API call saturates here
MaxSent == 3

\* the API calls that may be in flight together
Calls == {"c1", "c2"}

(***************************************************************************)
(* Program constants.                                                      *)
(***************************************************************************)
\* expires_in * 1000: seconds to milliseconds
MsPerSecond == 1000
\* "- 60000, // 1 minute buffer"
SafetyMarginMs == 60000

\* the clock advances in steps of half the buffer
TickMs == SafetyMarginMs \div 2

(***************************************************************************)
(* Values.                                                                 *)
(***************************************************************************)
\* what the token endpoint may put in the fields of its JSON body
AccessValues == {"A1", "A2"}
RefreshValues == {"R1", "R2"}

\* a field that is absent from an object
Undefined == "undefined"
\* JavaScript numbers: an integer or NaN
NaN == [nan |-> TRUE, v |-> 0]
Num(x) == [nan |-> FALSE, v |-> x]

\* truthiness of an optional string (the strings of the model are non-empty)
Truthy(s) == s # Undefined

Min(a, b) == IF a <= b THEN a ELSE b

\* expires_in, in seconds: the buffer itself, and one tick more than it
ExpiresInValues == {SafetyMarginMs \div MsPerSecond,
                    (SafetyMarginMs + TickMs) \div MsPerSecond}

LongLived == Num((SafetyMarginMs + TickMs) \div MsPerSecond)
ShortLived == Num(SafetyMarginMs \div MsPerSecond)

\* 2xx bodies, with every field present or missing
TokenBodies ==
  [access_token : AccessValues \cup {Undefined},
   refresh_token : RefreshValues \cup {Undefined},
   expires_in : {Num(s) : s \in ExpiresInValues} \cup {NaN},
   token_type : {"bearer", Undefined}]

\* the bodies used while API calls overlap
LeanBodies ==
  {[access_token |-> "A1", refresh_token |-> "R1",
    expires_in |-> LongLived, token_type |-> Undefined],
   [access_token |-> "A2", refresh_token |-> Undefined,
    expires_in |-> LongLived, token_type |-> Undefined],
   [access_token |-> "A2", refresh_token |-> "R2",
    expires_in |-> ShortLived, token_type |-> Undefined]}

EmptyBody ==
  [access_token |-> Undefined, refresh_token |-> Undefined,
   expires_in |-> NaN, token_type |-> Undefined]

\* answers of the token endpoint: a rejected post (non-2xx, network error,
\* timeout), a 2xx answer without a body (response.data is not an object
\* that can be dereferenced), or a 2xx answer with a JSON object
TokenResponses ==
  {[kind |-> "error", body |-> EmptyBody],
   [kind |-> "nobody", body |-> EmptyBody]}
  \cup {[kind |-> "json", body |-> b] : b \in TokenBodies}

LeanResponses ==
  {[kind |-> "error", body |-> EmptyBody]}
  \cup {[kind |-> "json", body |-> b] : b \in LeanBodies}

\* answers of the API: a status, or 0 when no response arrives (timeout)
ApiAnswers == {200, 401, 500, 0}
LeanApiAnswers == {200, 401, 500}

\* a required setting in process.env: missing, empty, or set
SettingValues == {Undefined, "", "set"}

Environments ==
  [MAUTIC_BASE_URL : SettingValues, MAUTIC_CLIENT_ID : SettingValues,
   MAUTIC_CLIENT_SECRET : SettingValues, MAUTIC_TOKEN_ENDPOINT : SettingValues]

\* !x of JavaScript for an optional string
Falsy(x) == x = Undefined \/ x = ""

\* a check that forgets the token endpoint
ConfigCompleteWithoutEndpoint(e) ==
  ~(Falsy(e.MAUTIC_BASE_URL) \/ Falsy(e.MAUTIC_CLIENT_ID)
      \/ Falsy(e.MAUTIC_CLIENT_SECRET))

\* the module-level check does not throw
ConfigComplete(e) ==
  ~(Falsy(e.MAUTIC_BASE_URL) \/ Falsy(e.MAUTIC_CLIENT_ID)
      \/ Falsy(e.MAUTIC_CLIENT_SECRET) \/ Falsy(e.MAUTIC_TOKEN_ENDPOINT))

\* what a tool method hands to this.axiosInstance: post(url, args) with an
\* object as data, get(url) without data
NoConfig == [method |-> "none", url |-> "none", data |-> "none"]

Requests ==
  {[method |-> "post", url |-> "/contacts/new", data |-> "object"],
   [method |-> "get", url |-> "/contacts", data |-> "none"]}

\* the request used while API calls overlap
LeanRequests == {[method |-> "post", url |-> "/contacts/new", data |-> "object"]}

\* the request body axios writes for config.data: an object is encoded as
\* JSON text, JSON text and an absent body are passed on as they are
Serialize(data) == IF data = "object" THEN "json" ELSE data

(***************************************************************************)
(* OAuth2Token | null                                                      *)
(***************************************************************************)
NoToken ==
  [present |-> FALSE, access_token |-> Undefined, refresh_token |-> Undefined,
   expires_at |-> NaN, token_type |-> Undefined]

\* an expiry without the one-minute buffer
ExpiresAtNoBuffer(n, expires_in) ==
  IF expires_in.nan THEN NaN ELSE Num(n + (expires_in.v * MsPerSecond))

\* Date.now() + (response.data.expires_in * 1000) - 60000
ExpiresAt(n, expires_in) ==
  IF expires_in.nan THEN NaN
  ELSE Num(n + (expires_in.v * MsPerSecond) - SafetyMarginMs)

\* a >= b of JavaScript, false when b is NaN
GreaterEq(a, b) == (~b.nan) /\ a >= b.v

\* an ensureValidToken that fetches a token on every call
NeedsTokenAlways(tok, n) == TRUE

\* !this.token || Date.now() >= this.token.expires_at
NeedsToken(tok, n) == (~tok.present) \/ GreaterEq(n, tok.expires_at)

\* this.token?.refresh_token
HasRefreshToken(tok) == tok.present /\ Truthy(tok.refresh_token)

\* a getAccessToken that stores no refresh token
TokenFromAcquireNoRefresh(body, n) ==
  [present |-> TRUE,
   access_token |-> body.access_token,
   refresh_token |-> Undefined,
   expires_at |-> ExpiresAt(n, body.expires_in),
   token_type |-> IF Truthy(body.token_type) THEN body.token_type ELSE "Bearer"]

\* the object getAccessToken stores
TokenFromAcquire(body, n) ==
  [present |-> TRUE,
   access_token |-> body.access_token,
   refresh_token |-> body.refresh_token,
   expires_at |-> ExpiresAt(n, body.expires_in),
   token_type |-> IF Truthy(body.token_type) THEN body.token_type ELSE "Bearer"]

\* a refreshToken that takes the refresh token from the response only
TokenFromRefreshDropsOld(body, tok, n) ==
  [present |-> TRUE,
   access_token |-> body.access_token,
   refresh_token |-> body.refresh_token,
   expires_at |-> ExpiresAt(n, body.expires_in),
   token_type |-> IF Truthy(body.token_type) THEN body.token_type ELSE "Bearer"]

\* the object refreshToken stores; this.token is read when the response is
\* processed
TokenFromRefresh(body, tok, n) ==
  [present |-> TRUE,
   access_token |-> body.access_token,
   refresh_token |-> IF Truthy(body.refresh_token) THEN body.refresh_token
                     ELSE tok.refresh_token,
   expires_at |-> ExpiresAt(n, body.expires_in),
   token_type |-> IF Truthy(body.token_type) THEN body.token_type ELSE "Bearer"]

\* a try block that takes every settled post for a success
ExchangeSucceedsAlways(resp) == TRUE

\* the try block of getAccessToken / refreshToken completes
ExchangeSucceeds(resp) == resp.kind = "json"

\* a getAccessToken whose catch discards the stored token
AfterAcquireClearsOnFailure(tok, resp, n) ==
  IF ExchangeSucceeds(resp) THEN TokenFromAcquire(resp.body, n) ELSE NoToken

\* this.token after getAccessToken has processed the answer: assigned at the
\* end of the try block, not touched by the catch
AfterAcquire(tok, resp, n) ==
  IF ExchangeSucceeds(resp) THEN TokenFromAcquire(resp.body, n) ELSE tok

\* a refreshToken whose catch discards the stored token
AfterRefreshClearsOnFailure(tok, resp, n) ==
  IF ExchangeSucceeds(resp) THEN TokenFromRefresh(resp.body, tok, n)
  ELSE NoToken

\* this.token after refreshToken has processed the answer of its post
AfterRefresh(tok, resp, n) ==
  IF ExchangeSucceeds(resp) THEN TokenFromRefresh(resp.body, tok, n) ELSE tok

(***************************************************************************)
(* Errors and results of an API call.                                      *)
(***************************************************************************)
\* tx is the transmission the error or response belongs to (0: none)
NoError == [kind |-> "none", status |-> 0, tx |-> 0]
HttpError(s, t) == [kind |-> "http", status |-> s, tx |-> t]
TimeoutError(t) == [kind |-> "timeout", status |-> 0, tx |-> t]
\* new McpError(ErrorCode.InternalError, 'Failed to authenticate with Mautic API')
AuthError == [kind |-> "mcp", status |-> 0, tx |-> 0]
ApiSuccess(s, t) == [kind |-> "response", status |-> s, tx |-> t]

ApiError(a, t) == IF a = 0 THEN TimeoutError(t) ELSE HttpError(a, t)

\* a handler that refreshes on every 401
ShouldRefreshAny401(e, tok) == e.kind = "http" /\ e.status = 401

\* error.response?.status === 401 && this.token?.refresh_token
ShouldRefresh(e, tok) == e.kind = "http" /\ e.status = 401 /\ HasRefreshToken(tok)

(***************************************************************************)
(* The axios error caught by the tool handler and the text made of it.     *)
(***************************************************************************)
\* a || b of JavaScript for optional strings
Or(a, b) == IF Falsy(a) THEN b ELSE a

\* response.data.errors: absent, or an array of objects that may have a
\* message
ErrorsValues ==
  {[present |-> FALSE, items |-> <<>>],
   [present |-> TRUE, items |-> <<>>],
   [present |-> TRUE, items |-> <<[message |-> Undefined]>>],
   [present |-> TRUE, items |-> <<[message |-> ""]>>],
   [present |-> TRUE, items |-> <<[message |-> "E1"]>>],
   [present |-> TRUE, items |-> <<[message |-> "E1"], [message |-> "E3"]>>]}

\* response.data.error: absent, a string (the OAuth2 error code), or an
\* object that may have a message
ErrorValues ==
  {[kind |-> "absent", message |-> Undefined],
   [kind |-> "string", message |-> Undefined],
   [kind |-> "object", message |-> Undefined],
   [kind |-> "object", message |-> ""],
   [kind |-> "object", message |-> "E2"]}

NoBody == [present |-> FALSE, errors |-> [present |-> FALSE, items |-> <<>>],
           error |-> [kind |-> "absent", message |-> Undefined]]

\* error.message of axios
TransportMessage(status) ==
  IF status = 0 THEN "timeout of 30000ms exceeded"
  ELSE IF status = 401 THEN "Request failed with status code 401"
  ELSE IF status = 404 THEN "Request failed with status code 404"
  ELSE "Request failed with status code 500"

\* the axios errors a tool method may throw: no response (timeout), a
\* response without a JSON body, a response with one
AxiosErrors ==
  {[status |-> 0, data |-> NoBody, message |-> TransportMessage(0)]}
  \cup {[status |-> st, data |-> NoBody, message |-> TransportMessage(st)] :
          st \in {401, 404, 500}}
  \cup {[status |-> st,
         data |-> [present |-> TRUE, errors |-> es, error |-> e],
         message |-> TransportMessage(st)] :
          st \in {401, 404, 500}, es \in ErrorsValues, e \in ErrorValues}

\* error.response?.data?.errors?.[0]?.message
FirstErrorsMessage(err) ==
  IF err.status = 0 \/ ~err.data.present \/ ~err.data.errors.present
     \/ Len(err.data.errors.items) = 0
  THEN Undefined
  ELSE err.data.errors.items[1].message

\* error.response?.data?.error?.message
ErrorObjectMessage(err) ==
  IF err.status = 0 \/ ~err.data.present THEN Undefined
  ELSE err.data.error.message

\* a handler that reports the transport message only
ErrorMessageTransportOnly(err) == err.message

\* const message = errors?.[0]?.message || error?.message || error.message
ErrorMessage(err) ==
  Or(FirstErrorsMessage(err), Or(ErrorObjectMessage(err), err.message))

NoText == <<"none", "none">>

\* `Mautic API Error: ${message}`
ErrorText(err) == <<"Mautic API Error: ", ErrorMessage(err)>>

NoCaught ==
  [error |-> [status |-> 0, data |-> NoBody, message |-> "none"],
   text |-> NoText]

(***************************************************************************)
(* One API call made through this.axiosInstance.                           *)
(***************************************************************************)
\* the request as transmitted: the Authorization header (scheme and token),
\* whether the token was unexpired when attached, method, URL and body
NoWire ==
  [attached |-> FALSE, scheme |-> Undefined, access |-> Undefined,
   fresh |-> FALSE, method |-> "none", url |-> "none", body |-> "none"]
NoGrant == [grant_type |-> "none", refresh_token |-> Undefined]
\* the token-manager invocation running for the call: who started it
\* (ensureValidToken of the request interceptor, or refreshToken of the
\* response interceptor), what it found stored, the first grant it sent, the
\* number of token-endpoint calls it made, whether it fell back after a failed
\* refresh grant, and how it returned
NoOp ==
  [who |-> "none", pre |-> "none", first |-> "none", calls |-> 0,
   fellBack |-> FALSE, ret |-> "none"]

InitCall ==
  [pc |-> "idle", sent |-> 0, err |-> NoError, outcome |-> NoError,
   wire |-> NoWire, grant |-> NoGrant, op |-> NoOp, resp |-> "none",
   logged |-> FALSE, config |-> NoConfig, reply |-> "none"]

\* what an invocation finds stored
PreOf(tok, n) ==
  IF ~tok.present THEN "absent"
  ELSE IF tok.expires_at.nan \/ n < tok.expires_at.v THEN "current"
  ELSE IF tok.refresh_token # Undefined THEN "expired_rt"
  ELSE "expired_nort"

\* now < expiresAt
Unexpired(tok, n) == tok.present /\ (~tok.expires_at.nan) /\ n < tok.expires_at.v

RetOf(tok, n) == IF Unexpired(tok, n) THEN "valid" ELSE "stale"

\* axios.post(MAUTIC_TOKEN_ENDPOINT, {grant_type: 'client_credentials', ...})
PostAcquire(r) ==
  [r EXCEPT !.pc = "awaitAcquire",
            !.grant = [grant_type |-> "client_credentials",
                       refresh_token |-> Undefined],
            !.op.first = IF r.op.first = "none" THEN "client_credentials"
                         ELSE r.op.first,
            !.op.calls = r.op.calls + 1]

\* a refresh post that leaves out the refresh token
PostRefreshWithoutToken(r, tok) ==
  [r EXCEPT !.pc = "awaitRefresh",
            !.grant = [grant_type |-> "refresh_token",
                       refresh_token |-> Undefined],
            !.op.first = IF r.op.first = "none" THEN "refresh_token"
                         ELSE r.op.first,
            !.op.calls = r.op.calls + 1]

\* axios.post(MAUTIC_TOKEN_ENDPOINT, {grant_type: 'refresh_token', ...})
PostRefresh(r, tok) ==
  [r EXCEPT !.pc = "awaitRefresh",
            !.grant = [grant_type |-> "refresh_token",
                       refresh_token |-> tok.refresh_token],
            !.op.first = IF r.op.first = "none" THEN "refresh_token"
                         ELSE r.op.first,
            !.op.calls = r.op.calls + 1]

\* refreshToken(), up to its first await
RefreshTokenBegin(r, tok) ==
  IF ~HasRefreshToken(tok) THEN PostAcquire(r) ELSE PostRefresh(r, tok)

\* an ensureValidToken that always acquires
EnsureBeginAlwaysAcquire(r, tok) == PostAcquire(r)

\* ensureValidToken(), up to its first await: which exchange it starts
EnsureBegin(r, tok) ==
  IF HasRefreshToken(tok) THEN RefreshTokenBegin(r, tok) ELSE PostAcquire(r)

\* a replay that goes out with the Authorization header of the transmission
\* before it
DispatchReplayKeepsHeader(r, tok, n) ==
  LET body == Serialize(r.config.data)
      fresh == [attached |-> tok.present,
                scheme |-> IF tok.present THEN "Bearer" ELSE Undefined,
                access |-> IF tok.present THEN tok.access_token
                           ELSE Undefined,
                fresh |-> tok.present /\ Unexpired(tok, n),
                method |-> r.config.method,
                url |-> r.config.url,
                body |-> body]
  IN [r EXCEPT !.pc = "awaitApi",
               !.sent = Min(r.sent + 1, MaxSent),
               !.grant = NoGrant,
               !.config.data = body,
               !.wire = IF r.sent = 0 THEN fresh ELSE r.wire]

\* a replay that goes out without the body of the original request
DispatchReplayWithoutBody(r, tok, n) ==
  LET body == IF r.sent = 0 THEN Serialize(r.config.data) ELSE "none"
  IN [r EXCEPT !.pc = "awaitApi",
               !.sent = Min(r.sent + 1, MaxSent),
               !.grant = NoGrant,
               !.config.data = body,
               !.wire = [attached |-> tok.present,
                         scheme |-> IF tok.present THEN "Bearer" ELSE Undefined,
                         access |-> IF tok.present THEN tok.access_token
                                    ELSE Undefined,
                         fresh |-> tok.present /\ Unexpired(tok, n),
                         method |-> r.config.method,
                         url |-> r.config.url,
                         body |-> body]]

\* config.headers.Authorization = `Bearer ${this.token.access_token}` and
\* the transmission of the request described by config; the encoded body
\* stays in config.data
Dispatch(r, tok, n) ==
  LET body == Serialize(r.config.data)
  IN [r EXCEPT !.pc = "awaitApi",
               !.sent = Min(r.sent + 1, MaxSent),
               !.grant = NoGrant,
               !.config.data = body,
               !.wire = [attached |-> tok.present,
                         scheme |-> IF tok.present THEN "Bearer" ELSE Undefined,
                         access |-> IF tok.present THEN tok.access_token
                                    ELSE Undefined,
                         fresh |-> tok.present /\ Unexpired(tok, n),
                         method |-> r.config.method,
                         url |-> r.config.url,
                         body |-> body]]

\* the request interceptor after ensureValidToken has returned
AfterEnsure(r, tok, n) ==
  Dispatch([r EXCEPT !.op.ret = RetOf(tok, n)], tok, n)

\* this.axiosInstance.request(config): the request interceptor with
\* ensureValidToken, up to the first network call
Request(r, tok, n) ==
  LET r0 == [r EXCEPT !.op = [who |-> "ensure", pre |-> PreOf(tok, n),
                              first |-> "none", calls |-> 0,
                              fellBack |-> FALSE, ret |-> "pending"]]
  IN IF NeedsToken(tok, n) THEN EnsureBegin(r0, tok)
     ELSE AfterEnsure(r0, tok, n)

\* what the CallToolRequestSchema handler does with the settled API call:
\* the tool method returns its content; the catch block rethrows a McpError
\* and turns an axios error into { content: [...], isError: true }
ToolReply(result) ==
  IF result.kind = "response" THEN "content"
  ELSE IF result.kind = "mcp" THEN "McpError"
  ELSE "isError"

\* the promise of the API call settles and the tool handler ends
Settle(r, result) ==
  [r EXCEPT !.pc = "done", !.outcome = result, !.grant = NoGrant,
            !.reply = ToolReply(result)]

\* the response interceptor's error handler, for an error that carries no
\* 401 response or while no refresh token is stored: Promise.reject(error)
Reject(r, e) == Settle([r EXCEPT !.err = e], e)

\* the token manager returned normally to its caller: the request interceptor
\* attaches the header and sends; the response interceptor replays the
\* original request through this.axiosInstance.request
Continue(r, tok, n) ==
  IF r.op.who = "ensure" THEN AfterEnsure(r, tok, n)
  ELSE Request([r EXCEPT !.op.ret = RetOf(tok, n)], tok, n)

\* a getAccessToken that posts again when its post has failed
ThrowRetriesAcquire(r) == PostAcquire(r)

\* a request interceptor that swallows the McpError and sends the request
ThrowSendsAnyway(r) ==
  IF r.op.who = "ensure"
  THEN Dispatch([r EXCEPT !.op.ret = "threw"], NoToken, 0)
  ELSE Settle([r EXCEPT !.op.ret = "threw", !.logged = TRUE], r.err)

\* a response interceptor that rethrows what refreshToken threw
ThrowPropagates(r) == Settle([r EXCEPT !.op.ret = "threw"], AuthError)

\* the token manager threw the McpError: out of the request interceptor it
\* passes the response error handler (no response in it) and rejects the
\* call; in the response interceptor it is caught and logged, and the handler
\* rejects with the error it was given
Throw(r) ==
  IF r.op.who = "ensure"
  THEN Settle([r EXCEPT !.op.ret = "threw"], AuthError)
  ELSE Settle([r EXCEPT !.op.ret = "threw", !.logged = TRUE], r.err)

\* the catch block of refreshToken: console.error, then getAccessToken()
Fallback(r) == PostAcquire([r EXCEPT !.op.fellBack = TRUE, !.logged = TRUE])

\* the response interceptor's error handler
OnResponseError(r, e, tok, n) ==
  IF ShouldRefresh(e, tok)
  THEN RefreshTokenBegin(
         [r EXCEPT !.err = e,
                   !.op = [who |-> "handler", pre |-> PreOf(tok, n),
                           first |-> "none", calls |-> 0,
                           fellBack |-> FALSE, ret |-> "pending"]],
         tok)
  ELSE Reject(r, e)

(***************************************************************************)
(* Actions.                                                                *)
(***************************************************************************)
\* the last answer of the token endpoint that the server processed: the
\* grant it answered and the answer
NoExchange == [grant_type |-> "none", kind |-> "none", body |-> EmptyBody]

Exchange(g, resp) == [grant_type |-> g, kind |-> resp.kind, body |-> resp.body]

\* the body of a post to the token endpoint, as far as it holds secrets
NoData ==
  [grant_type |-> "none", refresh_token |-> Undefined,
   client_secret |-> Undefined]

PostedData(grant, e) ==
  [grant_type |-> grant.grant_type, refresh_token |-> grant.refresh_token,
   client_secret |-> e.MAUTIC_CLIENT_SECRET]

\* console.error(msg, error): the message and what the printed error object
\* holds of the request it belongs to
LogLine(msg, data) == [msg |-> msg, data |-> data]

\* the error caught by getAccessToken / refreshToken: the rejection of
\* axios.post carries the request config with the posted data; the
\* TypeError of reading a field of an absent body carries nothing
CaughtData(resp, grant, e) ==
  IF resp.kind = "error" THEN PostedData(grant, e) ELSE NoData

\* the lines written while a failed client_credentials post is processed:
\* the catch of getAccessToken, then, when refreshToken was called by the
\* response interceptor, its catch with the McpError
AcquireFailureLog(r, resp, e) ==
  <<LogLine("Failed to get access token:", CaughtData(resp, r.grant, e))>>
  \o (IF r.op.who = "handler"
      THEN <<LogLine("Token refresh failed:", NoData)>>
      ELSE <<>>)

\* the line written by the catch of refreshToken
RefreshFailureLog(r, resp, e) ==
  <<LogLine("Failed to refresh token:", CaughtData(resp, r.grant, e))>>

\* the process has been started with some environment; the module has not
\* run yet
Init ==
  /\ caught = NoCaught
  /\ log = <<>>
  /\ token = NoToken
  /\ now = 0
  /\ call = [c \in Calls |-> InitCall]
  /\ exch = NoExchange
  /\ env \in Environments
  /\ server = "loading"

\* the module runs: the configuration check throws, or new MauticServer()
\* and server.run() connect the transport
Startup ==
  /\ server = "loading"
  /\ server' = IF ConfigComplete(env) THEN "running" ELSE "failed"
  /\ log' = IF ConfigComplete(env)
            THEN <<LogLine("Mautic MCP server running on stdio", NoData)>>
            ELSE log
  /\ UNCHANGED <<token, now, call, exch, env, caught>>

\* a tool handler calls this.axiosInstance.get/post/...
StartCall(c, requests) ==
  /\ server = "running"
  /\ call[c].pc = "idle"
  /\ \E q \in requests :
       call' = [call EXCEPT ![c] =
                  Request([InitCall EXCEPT !.config = q], token, now)]
  /\ UNCHANGED <<token, now, exch, env, server, log, caught>>

\* the client_credentials post of getAccessToken settles
AcquireResponse(c, answers) ==
  /\ call[c].pc = "awaitAcquire"
  /\ \E resp \in answers :
       LET r == [call[c] EXCEPT !.resp = resp.kind]
       IN /\ exch' = Exchange("client_credentials", resp)
          /\ token' = AfterAcquire(token, resp, now)
          /\ IF ExchangeSucceeds(resp)
             THEN /\ call' = [call EXCEPT ![c] = Continue(r, token', now)]
                  /\ log' = <<>>
             ELSE /\ call' = [call EXCEPT ![c] = Throw(r)]
                  /\ log' = AcquireFailureLog(r, resp, env)
  /\ UNCHANGED <<now, env, server, caught>>

\* the refresh_token post of refreshToken settles
RefreshResponse(c, answers) ==
  /\ call[c].pc = "awaitRefresh"
  /\ \E resp \in answers :
       LET r == [call[c] EXCEPT !.resp = resp.kind]
       IN /\ exch' = Exchange("refresh_token", resp)
          /\ token' = AfterRefresh(token, resp, now)
          /\ IF ExchangeSucceeds(resp)
             THEN /\ call' = [call EXCEPT ![c] = Continue(r, token', now)]
                  /\ log' = <<>>
             ELSE /\ call' = [call EXCEPT ![c] = Fallback(r)]
                  /\ log' = RefreshFailureLog(r, resp, env)
  /\ UNCHANGED <<now, env, server, caught>>

\* the API answers the transmitted request (or the request times out)
ApiResponse(c, answers) ==
  /\ call[c].pc = "awaitApi"
  /\ \E a \in answers :
       LET r == [call[c] EXCEPT !.resp = "none"]
       IN call' = [call EXCEPT ![c] =
                     IF a = 200 THEN Settle(r, ApiSuccess(a, r.sent))
                     ELSE OnResponseError(r, ApiError(a, r.sent), token, now)]
  /\ UNCHANGED <<token, now, exch, env, server, log, caught>>

\* the tool handler has consumed the result
Return(c) ==
  /\ call[c].pc = "done"
  /\ call' = [call EXCEPT ![c] = InitCall]
  /\ UNCHANGED <<token, now, exch, env, server, log, caught>>

\* Date.now() advances
Tick ==
  /\ now < MaxTicks * TickMs
  /\ now' = now + TickMs
  /\ UNCHANGED <<token, call, exch, env, server, log, caught>>

\* no other API call is in flight
Alone(c) == \A d \in Calls \ {c} : call[d].pc = "idle"

\* the client awaits each tool call before it issues the next
StartCallAlone(c) == Alone(c) /\ StartCall(c, Requests)

Next ==
  \/ \E c \in Calls : StartCallAlone(c)
  \/ \E c \in Calls : AcquireResponse(c, TokenResponses)
  \/ \E c \in Calls : RefreshResponse(c, TokenResponses)
  \/ \E c \in Calls : ApiResponse(c, ApiAnswers)
  \/ \E c \in Calls : Return(c)
  \/ Tick
  \/ Startup

Spec == Init /\ [][Next]_vars

\* every network call returns
NetworkReturns(c) ==
  \/ AcquireResponse(c, TokenResponses)
  \/ RefreshResponse(c, TokenResponses)
  \/ ApiResponse(c, ApiAnswers)

FairSpec == Spec /\ \A c \in Calls : WF_vars(NetworkReturns(c))

\* the catch block of the tool handler runs for an axios error
HandlerCatch ==
  /\ caught.text = NoText
  /\ caught' = [caught EXCEPT !.text = ErrorText(caught.error)]
  /\ UNCHANGED <<token, now, call, exch, env, server, log>>

\* a tool call has failed with some axios error and the handler has caught it
CatchInit ==
  /\ caught \in [error : AxiosErrors, text : {NoText}]
  /\ log = <<LogLine("Mautic MCP server running on stdio", NoData)>>
  /\ token = NoToken
  /\ now = 0
  /\ call = [c \in Calls |-> InitCall]
  /\ exch = NoExchange
  /\ env = [MAUTIC_BASE_URL |-> "set", MAUTIC_CLIENT_ID |-> "set",
            MAUTIC_CLIENT_SECRET |-> "set", MAUTIC_TOKEN_ENDPOINT |-> "set"]
  /\ server = "running"

CatchNext == HandlerCatch

CatchSpec == CatchInit /\ [][CatchNext]_vars

\* the client issues tool calls that overlap
ConcNext ==
  \/ \E c \in Calls : StartCall(c, LeanRequests)
  \/ \E c \in Calls : AcquireResponse(c, LeanResponses)
  \/ \E c \in Calls : RefreshResponse(c, LeanResponses)
  \/ \E c \in Calls : ApiResponse(c, LeanApiAnswers)
  \/ \E c \in Calls : Return(c)
  \/ Tick
  \/ Startup

ConcSpec == Init /\ [][ConcNext]_vars

(***************************************************************************)
(* Properties.                                                             *)
(***************************************************************************)
\* the step of call c in which a request is put on the wire
Transmits(c) == call[c].pc # "awaitApi" /\ call'[c].pc = "awaitApi"

\* the step of call c in which the API's answer to its request arrives
Answered(c) == call[c].pc = "awaitApi" /\ call'[c].pc # "awaitApi"

\* C1: an API call is transmitted at most twice (the first send and one
\* replay), and when the replay is answered 401 the call ends with the
\* replay's error.
C1_AtMostTwoTransmissions ==
  \A c \in Calls :
    /\ call[c].sent <= 2
    /\ (call[c].err.tx = 2 /\ call[c].err.status = 401)
         => (call[c].pc = "done" /\ call[c].outcome = call[c].err)

\* C2: every API call that has started eventually completes, whatever the
\* API and the token endpoint answer, as long as every network call returns.
C2_EveryCallCompletes ==
  \A c \in Calls : (call[c].pc # "idle") ~> (call[c].pc = "done")

\* C3: whenever ensureValidToken returns without error (the request
\* interceptor goes on to send), a credential is stored whose expires_at is
\* strictly greater than the current instant.
C3_EnsuredTokenInFuture ==
  [][\A c \in Calls :
       Transmits(c) =>
         /\ token'.present
         /\ ~token'.expires_at.nan
         /\ token'.expires_at.v > now']_vars

\* C4: every transmitted request carries the access token of a credential
\* that was unexpired when the Authorization header was attached.
C4_NoExpiredCredentialOnWire ==
  \A c \in Calls :
    call[c].sent > 0 => (call[c].wire.attached /\ call[c].wire.fresh)

\* ensureValidToken of call c throws: its client_credentials post fails
\* while the request interceptor waits for it
EnsureThrows(c) ==
  /\ call[c].pc = "awaitAcquire"
  /\ call[c].op.who = "ensure"
  /\ call'[c].pc # "awaitAcquire"
  /\ call'[c].resp # "json"

\* C5: a request is transmitted only out of an ensureValidToken that returned
\* without error; when ensureValidToken throws, nothing is sent, the call ends
\* with the authentication error, and no refresh or replay is started.
C5_NoSendWithoutCredential ==
  [][\A c \in Calls :
       /\ Transmits(c) =>
            /\ call'[c].op.who = "ensure"
            /\ call'[c].op.ret \in {"valid", "stale"}
            /\ token'.present
       /\ EnsureThrows(c) =>
            /\ call'[c].pc = "done"
            /\ call'[c].outcome = AuthError
            /\ call'[c].sent = call[c].sent
            /\ call'[c].grant = NoGrant
            /\ token' = token]_vars

C5_Witness ==
  \E c \in Calls :
    /\ call[c].pc = "done"
    /\ call[c].op.who = "ensure"
    /\ call[c].resp = "error"
    /\ call[c].sent = 0
    /\ call[c].outcome.kind = "mcp"

\* the client_credentials post that followed a failed refresh grant of call c
\* succeeds
FallbackSucceeds(c) ==
  /\ call[c].pc = "awaitAcquire"
  /\ call[c].op.fellBack
  /\ call'[c].pc # "awaitAcquire"
  /\ call'[c].resp = "json"

\* C6: when the refresh grant fails and the client_credentials acquisition
\* that follows succeeds, the operation returns without error and a new valid
\* (unexpired) credential is stored.
C6_FallbackStoresValidCredential ==
  [][\A c \in Calls :
       FallbackSucceeds(c) =>
         /\ call'[c].op.ret # "threw"
         /\ call'[c].outcome.kind # "mcp"
         /\ token'.present
         /\ ~token'.expires_at.nan
         /\ token'.expires_at.v > now']_vars

\* refreshToken(), called by the response interceptor for call c, has thrown
RefreshThrew(c) == call[c].op.who = "handler" /\ call[c].op.ret = "threw"

C8_ReplayErrorSurfaced ==
  \A c \in Calls :
    call[c].err.tx = 2 => (call[c].pc = "done" /\ call[c].outcome = call[c].err)

\* C9: the response interceptor starts a refresh only for a 401 received
\* while a refresh token is stored; any other failure ends the call at once
\* with that error, with no further transmission, no token-endpoint call and
\* the stored credential unchanged.
C9_RefreshOnlyOn401WithRefreshToken ==
  [][\A c \in Calls :
       Answered(c) =>
         LET e == call'[c].err
             failed == call'[c].outcome.kind # "response"
             trigger == /\ e.kind = "http"
                        /\ e.status = 401
                        /\ token.present
                        /\ token.refresh_token # Undefined
         IN /\ (call'[c].pc \in {"awaitRefresh", "awaitAcquire"}) => trigger
            /\ (failed /\ ~trigger) =>
                 /\ call'[c].pc = "done"
                 /\ call'[c].outcome = e
                 /\ e.tx = call[c].sent
                 /\ call'[c].sent = call[c].sent
                 /\ call'[c].grant = NoGrant
                 /\ call'[c].op = call[c].op
                 /\ token' = token]_vars

C9_Witness ==
  \E c \in Calls :
    /\ call[c].pc = "done"
    /\ call[c].outcome = HttpError(401, 1)
    /\ call[c].sent = 1
    /\ call[c].op.who = "ensure"
    /\ token.present
    /\ token.refresh_token = Undefined

\* C10: ensureValidToken sends a refresh_token grant first when the stored
\* credential is expired and has a refresh token, a client_credentials grant
\* first when nothing is stored or the expired credential has no refresh
\* token, and nothing when the stored credential is current.
C10_GrantChosenByStoredState ==
  \A c \in Calls :
    call[c].op.who = "ensure" =>
      /\ call[c].op.pre = "expired_rt" => call[c].op.first = "refresh_token"
      /\ call[c].op.pre \in {"absent", "expired_nort"}
           => call[c].op.first = "client_credentials"
      /\ call[c].op.pre = "current" => call[c].op.first = "none"

C10_Witness ==
  \E c \in Calls :
    /\ call[c].op.who = "ensure"
    /\ call[c].op.pre = "expired_rt"
    /\ call[c].pc = "awaitRefresh"
    /\ call[c].grant.grant_type = "refresh_token"

\* call c takes a step
Stepped(c) == call'[c] # call[c]

\* the step in which the answer to the refresh_token grant of call c is
\* processed, and the one for its client_credentials grant
RefreshAnswered(c) == call[c].pc = "awaitRefresh" /\ Stepped(c)
AcquireAnswered(c) == call[c].pc = "awaitAcquire" /\ Stepped(c)

\* C11: a successful refresh_token grant stores the access token of the
\* response; the stored refresh token is the one of the response when it
\* carries one, and the one of the credential being replaced when it does not.
C11_RefreshKeepsRefreshToken ==
  [][\A c \in Calls :
       (RefreshAnswered(c) /\ exch'.kind = "json") =>
         /\ token'.present
         /\ token'.access_token = exch'.body.access_token
         /\ token'.expires_at.nan = exch'.body.expires_in.nan
         /\ exch'.body.refresh_token = Undefined
              => token'.refresh_token = token.refresh_token
         /\ exch'.body.refresh_token # Undefined
              => token'.refresh_token = exch'.body.refresh_token]_vars

C11_Witness ==
  /\ exch.grant_type = "refresh_token"
  /\ exch.kind = "json"
  /\ exch.body.refresh_token = Undefined
  /\ exch.body.access_token = "A2"
  /\ token.refresh_token = "R1"
  /\ token.access_token = "A2"

\* C12, as stated: once the stored credential has a refresh token, every
\* credential stored afterwards has one too.
C12_RefreshTokenNeverLost ==
  [][token.refresh_token # Undefined => token'.refresh_token # Undefined]_vars

\* C12, amended: a successful refresh_token grant never loses a stored refresh
\* token (it keeps it or replaces it by the one of the response), a failed
\* exchange leaves it as it is, and a client_credentials acquisition, the
\* fallback after a failed refresh included, stores exactly the refresh_token
\* of its response, which may be absent.
C12_RefreshTokenKeptByRefresh ==
  [][\A c \in Calls :
       /\ (RefreshAnswered(c) /\ exch'.kind = "json"
             /\ token.refresh_token # Undefined) =>
            /\ token'.refresh_token # Undefined
            /\ token'.refresh_token \in
                 {token.refresh_token, exch'.body.refresh_token}
       /\ ((RefreshAnswered(c) \/ AcquireAnswered(c)) /\ exch'.kind # "json") =>
            token'.refresh_token = token.refresh_token
       /\ (AcquireAnswered(c) /\ exch'.kind = "json") =>
            token'.refresh_token = exch'.body.refresh_token]_vars

C12_Witness ==
  \E c \in Calls :
    /\ call[c].op.fellBack
    /\ call[c].pc = "awaitApi"
    /\ exch.grant_type = "client_credentials"
    /\ exch.kind = "json"
    /\ exch.body.refresh_token = Undefined
    /\ token.present
    /\ token.refresh_token = Undefined

\* C13: when no credential is stored and the client_credentials post is
\* rejected (non-2xx status, network error), ensureValidToken ends with the
\* authentication error and still no credential is stored.
C13_FailedAcquireStoresNothing ==
  [][\A c \in Calls :
       (AcquireAnswered(c) /\ exch'.kind = "error" /\ ~token.present
          /\ call[c].op.who = "ensure") =>
         /\ ~token'.present
         /\ token' = NoToken
         /\ call'[c].op.ret = "threw"
         /\ call'[c].pc = "done"
         /\ call'[c].outcome.kind = "mcp"]_vars

C13_Witness ==
  \E c \in Calls :
    /\ ~token.present
    /\ exch.grant_type = "client_credentials"
    /\ exch.kind = "error"
    /\ call[c].pc = "done"
    /\ call[c].op.ret = "threw"
    /\ call[c].outcome.kind = "mcp"

\* C14: after a successful acquisition or refresh the stored expires_at is the
\* instant at which the response is processed, plus expires_in seconds, minus
\* 60 seconds.
C14_ExpiresAtFormula ==
  [][\A c \in Calls :
       ((RefreshAnswered(c) \/ AcquireAnswered(c)) /\ exch'.kind = "json"
          /\ ~exch'.body.expires_in.nan) =>
         /\ ~token'.expires_at.nan
         /\ token'.expires_at.v = now + exch'.body.expires_in.v * 1000 - 60000]_vars

C14_Witness ==
  /\ now = TickMs
  /\ exch.kind = "json"
  /\ exch.body.expires_in = LongLived
  /\ token.present
  /\ token.expires_at = Num(2 * TickMs)

\* C15: in every reachable state the stored credential is either absent or has
\* an access token (a 2xx answer of the token endpoint without access_token
\* never results in a stored credential).
C15_CredentialHasAccessToken ==
  token.present => Truthy(token.access_token)

\* C16: the Authorization header of every transmitted request, first send and
\* replay, is made of the token_type and the access_token of the credential
\* stored when the header is attached.
C16_HeaderUsesTokenType ==
  [][\A c \in Calls :
       Transmits(c) =>
         /\ call'[c].wire.attached
         /\ call'[c].wire.scheme = token'.token_type
         /\ call'[c].wire.access = token'.access_token]_vars

Raced(c) ==
  /\ call[c].pc = "awaitApi"
  /\ call[c].sent = 1
  /\ call[c].op.who = "ensure"
  /\ call[c].op.pre \in {"absent", "expired_rt", "expired_nort"}
  /\ call[c].op.calls = 1
  /\ call[c].op.ret \in {"valid", "stale"}

\* C18: when two overlapping API calls both found an absent or expired
\* credential and each ran its own successful exchange, the stored credential
\* is the one written last, it was unexpired when written, and each request
\* went out with the access token of a credential unexpired at that moment.
C18_RacingCallsEndValid ==
  (\A c \in Calls : Raced(c)) =>
    /\ token.present
    /\ token.access_token = exch.body.access_token
    /\ \A c \in Calls : call[c].op.ret = "valid" /\ call[c].wire.fresh

\* the tool call of c has ended in a failure
Failed(c) == call[c].pc = "done" /\ call[c].outcome.kind # "response"

\* C19: every failed tool call, whether the API answered with a failure or
\* authentication failed, ends with a result marked isError and not with an
\* error raised out of the handler.
C19_FailureIsErrorResult ==
  \A c \in Calls : Failed(c) => call[c].reply = "isError"

\* C20: when one of the four required settings is missing or empty, the
\* server never runs (the module has not run yet or startup has failed): no
\* tool call is served, no token-endpoint request and no API request is made.
C20_IncompleteConfigNeverServes ==
  (\E k \in DOMAIN env : env[k] \in {Undefined, ""}) =>
    /\ server \in {"loading", "failed"}
    /\ token = NoToken
    /\ exch = NoExchange
    /\ \A c \in Calls : call[c] = InitCall

C20_Witness ==
  /\ env.MAUTIC_BASE_URL = "set"
  /\ env.MAUTIC_CLIENT_ID = "set"
  /\ env.MAUTIC_CLIENT_SECRET = "set"
  /\ env.MAUTIC_TOKEN_ENDPOINT = ""
  /\ server = "failed"
  /\ now > 0

\* C21: what the server writes to its log does not depend on the client
\* secret, the refresh token or the access token: no line written holds one
\* of them, also when a token exchange fails and its error is logged.
C21_LogHoldsNoSecret ==
  \A i \in 1..Len(log) :
    /\ log[i].data.refresh_token = Undefined
    /\ log[i].data.client_secret = Undefined

\* the step in which the fallback acquisition of call c, made after its
\* refresh_token grant failed, fails too
BothFailed(c) ==
  AcquireAnswered(c) /\ call[c].op.fellBack /\ exch'.kind # "json"

\* C22, as stated: after a refresh_token grant and the fallback acquisition
\* have both failed, no credential is stored.
C22_NoTokenAfterUnrecoverableFailure ==
  [][\A c \in Calls : BothFailed(c) => ~token'.present]_vars

\* C22, amended: after both have failed, the credential that was stored is
\* still stored, unchanged and with its refresh token, and the token manager
\* has thrown; an ensureValidToken that finds an expired credential with a
\* refresh token starts with the refresh_token grant.
C22_TokenKeptAfterUnrecoverableFailure ==
  [][\A c \in Calls :
       /\ BothFailed(c) =>
            /\ token' = token
            /\ HasRefreshToken(token')
            /\ call'[c].op.ret = "threw"
       /\ (call[c].pc = "idle" /\ call'[c].pc # "idle"
             /\ HasRefreshToken(token) /\ NeedsToken(token, now)) =>
            /\ call'[c].pc = "awaitRefresh"
            /\ call'[c].grant.grant_type = "refresh_token"]_vars

C22_Witness ==
  \E c \in Calls :
    /\ call[c].pc = "done"
    /\ call[c].op.fellBack
    /\ call[c].op.ret = "threw"
    /\ exch.grant_type = "client_credentials"
    /\ exch.kind = "error"
    /\ token.present
    /\ token.refresh_token = "R1"

\* C23: one invocation of ensureValidToken or of refreshToken makes at most
\* two token-endpoint calls; when it makes two, the first is a refresh_token
\* grant that failed and the second the client_credentials grant of the
\* fallback; a failed client_credentials grant ends the invocation.
C23_AtMostTwoTokenCalls ==
  [][\A c \in Calls :
       /\ call'[c].op.calls <= 2
       /\ call'[c].op.calls = 2 =>
            /\ call'[c].op.first = "refresh_token"
            /\ call'[c].op.fellBack
       /\ call'[c].pc = "awaitRefresh" => call'[c].op.calls = 1
       /\ (AcquireAnswered(c) /\ exch'.kind # "json") =>
            /\ call'[c].pc = "done"
            /\ call'[c].op.ret = "threw"
            /\ call'[c].op.calls = call[c].op.calls]_vars

C23_Witness ==
  \E c \in Calls :
    /\ call[c].pc = "done"
    /\ call[c].op.who = "ensure"
    /\ call[c].op.calls = 2
    /\ call[c].op.first = "refresh_token"
    /\ call[c].op.ret = "threw"

\* C24: an ensureValidToken that finds a stored credential with
\* now < expires_at makes no token-endpoint call and leaves the stored
\* credential as it is: the request goes out in the same step.
C24_EnsureIsNoOpWhenValid ==
  [][\A c \in Calls :
       /\ (call[c].pc = "idle" /\ call'[c].pc # "idle"
             /\ Unexpired(token, now)) =>
            /\ token' = token
            /\ call'[c].pc = "awaitApi"
            /\ call'[c].op.calls = 0
            /\ call'[c].op.first = "none"
            /\ call'[c].grant = NoGrant
       /\ (call[c].op.who = "handler" /\ call'[c].op.who = "ensure"
             /\ Unexpired(token', now)) =>
            /\ call'[c].pc = "awaitApi"
            /\ call'[c].op.calls = 0
            /\ call'[c].op.first = "none"]_vars

C24_Witness ==
  \E c \in Calls :
    /\ call[c].pc = "awaitApi"
    /\ call[c].sent = 1
    /\ call[c].op.who = "ensure"
    /\ call[c].op.pre = "current"
    /\ call[c].op.calls = 0
    /\ Unexpired(token, now)
    /\ token.access_token = "A1"

\* the step in which call c sends a grant to the token endpoint
SendsRefreshGrant(c) ==
  call'[c].pc = "awaitRefresh" /\ call'[c] # call[c]

SendsAcquireGrant(c) ==
  call'[c].pc = "awaitAcquire" /\ call'[c] # call[c]

\* C25: every refresh_token grant sent carries a refresh token, the one of
\* the credential stored when it is sent; while no refresh token is stored,
\* the grant sent is client_credentials. In every interleaving.
C25_RefreshGrantCarriesStoredToken ==
  [][\A c \in Calls :
       /\ SendsRefreshGrant(c) =>
            /\ call'[c].grant.grant_type = "refresh_token"
            /\ Truthy(call'[c].grant.refresh_token)
            /\ call'[c].grant.refresh_token = token'.refresh_token
       /\ (SendsAcquireGrant(c) /\ ~call'[c].op.fellBack) =>
            /\ ~HasRefreshToken(token')
            /\ call'[c].grant.grant_type = "client_credentials"
            /\ call'[c].grant.refresh_token = Undefined]_vars

C25_Witness ==
  \E c, d \in Calls :
    /\ c # d
    /\ call[c].pc = "awaitRefresh"
    /\ call[c].grant.refresh_token = "R2"
    /\ token.refresh_token = "R2"
    /\ call[d].pc = "awaitRefresh"
    /\ call[d].grant.refresh_token = "R1"

\* the body of the caught error has a non-empty message in the first entry
\* of errors[]; it has one in error.message
BodyHasErrorsMessage ==
  /\ caught.error.status # 0
  /\ caught.error.data.present
  /\ caught.error.data.errors.present
  /\ Len(caught.error.data.errors.items) >= 1
  /\ caught.error.data.errors.items[1].message \notin {Undefined, ""}

BodyHasErrorMessage ==
  /\ caught.error.status # 0
  /\ caught.error.data.present
  /\ caught.error.data.error.kind = "object"
  /\ caught.error.data.error.message \notin {Undefined, ""}

\* C26: the message shown for a failed tool call is the message of the first
\* entry of errors[] of the response body when there is one, else
\* error.message of the body when there is one, and the transport message of
\* the error only when the body has neither.
C26_MessageFromBodyFirst ==
  caught.text # NoText =>
    /\ caught.text[1] = "Mautic API Error: "
    /\ BodyHasErrorsMessage =>
         caught.text[2] = caught.error.data.errors.items[1].message
    /\ (~BodyHasErrorsMessage /\ BodyHasErrorMessage) =>
         caught.text[2] = caught.error.data.error.message
    /\ (caught.text[2] = caught.error.message) <=>
         (~BodyHasErrorsMessage /\ ~BodyHasErrorMessage)

C26_Witness ==
  /\ caught.error.status = 500
  /\ caught.error.data.errors.items = <<[message |-> ""]>>
  /\ caught.error.data.error.message = "E2"
  /\ caught.text = <<"Mautic API Error: ", "E2">>

\* C27: in every interleaving, when the answer to a refresh_token grant has
\* no refresh_token, the refresh token stored with the new credential is the
\* one that was sent in that grant.
C27_KeptRefreshTokenIsTheOneSent ==
  [][\A c \in Calls :
       (RefreshAnswered(c) /\ exch'.kind = "json"
          /\ exch'.body.refresh_token = Undefined) =>
         token'.refresh_token = call[c].grant.refresh_token]_vars

\* C28: a failed token exchange leaves the stored credential exactly as it
\* is, whether it is the refresh_token grant, the client_credentials grant
\* or the fallback after a failed refresh; a stored credential never becomes
\* absent again.
C28_FailedExchangeKeepsCredential ==
  [][/\ \A c \in Calls :
          ((RefreshAnswered(c) \/ AcquireAnswered(c)) /\ exch'.kind # "json")
            => token' = token
     /\ token.present => token'.present]_vars

C28_Witness ==
  \E c \in Calls :
    /\ call[c].pc = "awaitAcquire"
    /\ call[c].op.fellBack
    /\ exch.grant_type = "refresh_token"
    /\ exch.kind = "error"
    /\ token.present
    /\ token.access_token = "A1"
    /\ token.refresh_token = "R1"
    /\ ~Unexpired(token, now)

\* the last answer of the token endpoint processed was a failed
\* client_credentials grant: getAccessToken threw the authentication error
AuthFailed == exch.grant_type = "client_credentials" /\ exch.kind # "json"

\* C29: after an authentication failure that left no unexpired credential,
\* the next API call runs a new token exchange, and when its
\* client_credentials grant is answered successfully the credential stored is
\* valid and the request is transmitted.
C29_AuthFailureNotSticky ==
  [][\A c \in Calls :
       /\ (call[c].pc = "idle" /\ call'[c].pc # "idle"
             /\ AuthFailed /\ PreOf(token, now) # "current") =>
            call'[c].pc \in {"awaitAcquire", "awaitRefresh"}
       /\ (AcquireAnswered(c) /\ call[c].op.who = "ensure"
             /\ ~call[c].op.fellBack /\ AuthFailed /\ exch'.kind = "json") =>
            /\ Unexpired(token', now)
            /\ call'[c].pc = "awaitApi"
            /\ call'[c].sent = 1]_vars

\* C30: the access token in the Authorization header of a replay is the
\* access token of the credential stored when the replay is transmitted.
C30_ReplayHeaderFromStoredToken ==
  [][\A c \in Calls :
       (Transmits(c) /\ call[c].sent >= 1) =>
         /\ call'[c].wire.attached
         /\ call'[c].wire.access = token'.access_token]_vars

C30_Witness ==
  \E c \in Calls :
    /\ call[c].pc = "awaitApi"
    /\ call[c].sent = 2
    /\ call[c].err.status = 401
    /\ call[c].err.tx = 1
    /\ call[c].op.who = "ensure"
    /\ call[c].op.calls = 1
    /\ call[c].wire.access = "A1"
    /\ token.access_token = "A1"
    /\ exch.body.access_token = "A1"

====
